---- MODULE Spec2Model ----
(***************************************************************************)
(* A model of phi/physics/smoke.py: the SmokeState container and the Smoke *)
(* engine (construction, the cached DomainState, the five-stage step, the  *)
(* pressure solve and its diagnostics, (un)serialisation).                 *)
(*                                                                         *)
(* Grid data.  A tensor is a record [kind, ch]: ch is the sequence of its  *)
(* channels (the last axis of the array, so shape[-1] = Len(ch)), each     *)
(* channel a function from the cells 1..NCells to an integer.  A           *)
(* StaggeredGrid is the same record with kind "staggered", one channel per *)
(* spatial axis.  The cells lie along axis 0; the grid has extent one      *)
(* along every other axis, so differences along those axes vanish.         *)
(* Values are integers: the grid spacing is 1 and central differences are  *)
(* kept in units of 1/2.                                                   *)
(*                                                                         *)
(* Objects.  During a step the fields live in `heap`, a sequence of        *)
(* objects; a SmokeState holds two references (indices into heap), as the  *)
(* Python object holds two references.  A stage that makes a new field     *)
(* appends an object; an in-place operator overwrites one.                 *)
(***************************************************************************)
EXTENDS Integers, Sequences, FiniteSets, TLC

\* ------------------------------------------------------------------ bounds
NCells == 2
MaxRank == 2
MaxChanges == 1

Cells == 1..NCells
Ranks == 1..MaxRank

\* ------------------------------------------------------- tensors and fields
Tensor(chs) == [kind |-> "tensor", ch |-> chs]
Staggered(chs) == [kind |-> "staggered", ch |-> chs]
IsStaggered(x) == x.kind = "staggered"
\* input.shape[-1]
LastAxis(x) == Len(x.ch)

At(f, i) == IF i \in Cells THEN f[i] ELSE 0
Clamp(i) == IF i < 1 THEN 1 ELSE IF i > NCells THEN NCells ELSE i
Const(c) == [i \in Cells |-> c]
RECURSIVE SumOver(_, _)
SumOver(f, n) == IF n = 0 THEN 0 ELSE f[n] + SumOver(f, n - 1)
Total(f) == SumOver(f, NCells)

\* channel-wise arithmetic of two fields of the same kind and channel count
FieldAdd(a, b) == [a EXCEPT !.ch = [k \in 1..Len(a.ch) |-> [i \in Cells |-> a.ch[k][i] + b.ch[k][i]]]]
FieldSub(a, b) == [a EXCEPT !.ch = [k \in 1..Len(a.ch) |-> [i \in Cells |-> a.ch[k][i] - b.ch[k][i]]]]
\* a scalar field plus a mask scaled by a number
ScalarAddMask(d, mask, c) == Tensor(<<[i \in Cells |-> d.ch[1][i] + mask[i] * c]>>)

\* StaggeredGrid.divergence(): forward difference of the axis-0 faces
StaggeredDivergence(v) == Tensor(<<[i \in Cells |-> At(v.ch[1], i + 1) - v.ch[1][i]]>>)
\* nd.divergence(t, difference='central'): central difference of channel 0 along axis 0
NdDivergence(t) == Tensor(<<[i \in Cells |-> At(t.ch[1], i + 1) - At(t.ch[1], i - 1)]>>)
\* StaggeredGrid.gradient(pressure): backward difference along axis 0, zero along the others
StaggeredGradient(p, rank) ==
    Staggered([k \in 1..rank |-> IF k = 1 THEN [i \in Cells |-> p.ch[1][i] - At(p.ch[1], i - 1)]
                                          ELSE Const(0)])
\* StaggeredGrid.from_scalar(density, vec): component k is density * vec[k]
StaggeredFromScalar(d, vec) ==
    Staggered([k \in 1..Len(vec) |-> [i \in Cells |-> d.ch[1][i] * vec[k]]])
\* velocity.advect(field, dt): semi-Lagrangian, every channel of the field is
\* resampled at the position traced back along the axis-0 velocity
StaggeredAdvect(v, field, dt) ==
    [field EXCEPT !.ch = [k \in 1..Len(field.ch) |->
        [i \in Cells |-> field.ch[k][Clamp(i - v.ch[1][i] * dt)]]]]
\* nd.normalize_to(target, source): rescale target to the total of source
\* (integer grid values: the quotient is rounded down; a zero total is left alone)
NormalizeTo(target, source) ==
    IF Total(target.ch[1]) = 0 THEN target
    ELSE Tensor(<<[i \in Cells |-> (target.ch[1][i] * Total(source.ch[1])) \div Total(target.ch[1])]>>)

\* ------------------------------------------------------ pressure solver
\* pressure_solver.solve(divergence, domainstate, pressure_guess): one relaxation
\* sweep of the Poisson problem from the guess (zero when the guess is None) on
\* the active cells; the iteration count is the number of cells it had to relax
GuessField(guess) == IF guess = <<>> THEN Const(0) ELSE guess[1].ch[1]
Solve(div, ds, guess) ==
    [pressure |-> Tensor(<<[i \in Cells |->
                     ds.active[i] * (At(GuessField(guess), i - 1) + At(GuessField(guess), i + 1)
                                     - div.ch[1][i])]>>),
     iter |-> Cardinality({i \in Cells : ds.active[i] = 1 /\ div.ch[1][i] # 0})]

\* ------------------------------------------------------------ the world
ObstacleMasks == {[i \in Cells |-> IF i = j THEN 1 ELSE 0] : j \in 0..NCells}
Worlds == {[obstacle |-> m, inflow |-> [i \in Cells |-> IF i = 1 THEN 1 ELSE 0]] : m \in ObstacleMasks}
\* geometry_mask(world, grid, 'obstacle')
GeometryMask(w) == w.obstacle
\* inflow_mask(world, grid)
InflowMask(w) == w.inflow

\* -------------------------------------------------------- DomainState
\* DomainState(domain, world.state, active=mask, accessible=mask); id tells one
\* instance from another (the number of change notifications the world had
\* fired when the instance was built)
DomainState(id, w, act, acc) == [id |-> id, world_state |-> w, active |-> act, accessible |-> acc]
\* domainstate.with_hard_boundary_conditions(velocity): a new staggered field,
\* zero on the faces of cells that are not accessible
WithHardBoundaryConditions(ds, v) ==
    Staggered([k \in 1..Len(v.ch) |-> [i \in Cells |-> v.ch[k][i] * ds.accessible[i]]])

\* (a variant that takes the obstacle mask itself for the fluid cells)
UpdateDomainInverted(w, id) ==
    LET mask == GeometryMask(w)
    IN DomainState(id, w, mask, mask)
\* Smoke._update_domain: the DomainState built from the world as it is now
UpdateDomain(w, id) ==
    LET mask == [i \in Cells |-> 1 - GeometryMask(w)[i]]
    IN DomainState(id, w, mask, mask)

\* ------------------------------------------------------- construction
GravityValues == {-1, 1}
\* a constructor argument: a number (seq = FALSE, val = <<g>>) or a tuple / list
ScalarGravity(g) == [seq |-> FALSE, val |-> <<g>>]
SeqGravity(s) == [seq |-> TRUE, val |-> s]
Zeros(n) == [k \in 1..n |-> 0]
GravityArgs ==
    {ScalarGravity(g) : g \in GravityValues}
    \cup {SeqGravity(<<>>)}
    \cup {SeqGravity(<<g>> \o Zeros(n)) : g \in GravityValues, n \in 0..MaxRank}

\* (a variant that pads with rank zeros)
GravityVectorFull(g, rank) == <<g>> \o Zeros(rank)
\* [gravity] + ([0] * (domain.rank - 1))
GravityVector(g, rank) == <<g>> \o Zeros(rank - 1)

\* gravity == domain.rank, for gravity a tuple or list and domain.rank an int:
\* Python compares a sequence with a number as unequal, whatever their values
SeqEqualsInt(s, n) == FALSE
\* len(x) for x a bool: a bool has no len(), the call raises TypeError
LenOfBool(b) == [raised |-> TRUE, err |-> "TypeError"]
\* the gravity branch of Smoke.__init__, the interpreter running its assert
\* statements
GravityInit(arg, rank) ==
    IF arg.seq
    THEN IF LenOfBool(SeqEqualsInt(arg.val, rank)).raised
         THEN [ok |-> FALSE, err |-> LenOfBool(SeqEqualsInt(arg.val, rank)).err, gravity |-> <<>>]
         ELSE [ok |-> TRUE, err |-> "", gravity |-> arg.val]
    ELSE [ok |-> TRUE, err |-> "", gravity |-> GravityVector(arg.val[1], rank)]

DtValues == {1}
BuoyancyFactors == {1}

\* the engine before construction: no attribute is set
NoSmoke ==
    [rank |-> 0, gravity |-> <<>>, dt |-> 0, buoyancy_factor |-> 0, conserve_density |-> FALSE,
     domainstate |-> <<>>, last_pressure |-> <<>>, last_iter |-> <<>>]

\* ------------------------------------------------------------ SmokeState
SmokeState(d, v) == [density |-> d, velocity |-> v]

\* phi.math.disassemble(velocity): the components of the staggered field, one
\* scalar tensor per axis, and the function that stacks such a list again
DisassembleField(v) == [k \in 1..Len(v.ch) |-> Tensor(<<v.ch[k]>>)]
ReassembleField(tensors) == Staggered([k \in 1..Len(tensors) |-> tensors[k].ch[1]])

\* (a variant that lists the velocity components before the density)
SmokeStateDisassembleVelocityFirst(s) == DisassembleField(s.velocity) \o <<s.density>>
\* SmokeState.disassemble: the list, and the lambda applied to a list
SmokeStateDisassemble(s) == <<s.density>> \o DisassembleField(s.velocity)
SmokeStateReassemble(tensors) == SmokeState(tensors[1], ReassembleField(Tail(tensors)))

\* --------------------------------------------------- solve_pressure
\* the two input tests of solve_pressure, one after the other; ndiv counts the
\* divergence operators applied
DivergenceOfInput(input, rank) ==
    LET a == IF IsStaggered(input)
             THEN [field |-> StaggeredDivergence(input), ndiv |-> 1]
             ELSE [field |-> input, ndiv |-> 0]
    IN IF LastAxis(a.field) = rank
       THEN [field |-> NdDivergence(a.field), ndiv |-> a.ndiv + 1]
       ELSE a

\* (a variant that warm-starts the solver from the last pressure)
SolverGuessLastPressure(self) == self.last_pressure
\* pressure_guess=None
SolverGuess(self) == <<>>

\* (a variant that records the first solve only)
RecordDiagnosticsKeepFirst(self, pressure, iter) ==
    IF self.last_pressure = <<>>
    THEN [self EXCEPT !.last_pressure = <<pressure>>, !.last_iter = <<iter>>]
    ELSE self
\* self.last_pressure, self.last_iter = pressure, iter
RecordDiagnostics(self, pressure, iter) ==
    [self EXCEPT !.last_pressure = <<pressure>>, !.last_iter = <<iter>>]

\* Smoke.solve_pressure(input); ok = FALSE is a solver that raises.  The record
\* holds the engine afterwards, the value returned and what the attempt did.
SolvePressure(self, input, ok) ==
    LET n == DivergenceOfInput(input, self.rank)
        r == Solve(n.field, self.domainstate[1], SolverGuess(self))
    IN IF ok
       THEN [raised |-> FALSE, self |-> RecordDiagnostics(self, r.pressure, r.iter),
             pressure |-> r.pressure, iter |-> r.iter, ndiv |-> n.ndiv]
       ELSE [raised |-> TRUE, self |-> self,
             pressure |-> Tensor(<<Const(0)>>), iter |-> 0, ndiv |-> n.ndiv]

\* ------------------------------------------------------------ the stages
\* Each stage takes the engine, the world, the heap and a SmokeState (two
\* references) and gives the heap afterwards and the SmokeState it returns.
Alloc(h, x) == Append(h, x)
NoSolve == <<>>
StageResult(self, h, out) == [raised |-> FALSE, self |-> self, heap |-> h, out |-> out, solve |-> NoSolve]

\* Smoke.advect
Advect(self, w, h, s) ==
    LET prev_density == h[s.density]
        advected == StaggeredAdvect(h[s.velocity], h[s.density], self.dt)
        velocity == StaggeredAdvect(h[s.velocity], h[s.velocity], self.dt)
        density == IF self.conserve_density THEN NormalizeTo(advected, prev_density) ELSE advected
    IN StageResult(self, Alloc(Alloc(h, density), velocity), SmokeState(Len(h) + 1, Len(h) + 2))

\* Smoke.inflow
Inflow(self, w, h, s) ==
    LET inflow == InflowMask(w)
    IN StageResult(self, Alloc(h, ScalarAddMask(h[s.density], inflow, self.dt)),
                   SmokeState(Len(h) + 1, s.velocity))

\* Smoke.buoyancy
Buoyancy(self, w, h, s) ==
    LET dv == StaggeredFromScalar(h[s.density],
                  [k \in 1..Len(self.gravity) |-> self.gravity[k] * self.buoyancy_factor * (-1) * self.dt])
    IN StageResult(self, Alloc(h, FieldAdd(h[s.velocity], dv)), SmokeState(s.density, Len(h) + 1))

\* Smoke.friction
Friction(self, w, h, s) ==
    LET velocity == WithHardBoundaryConditions(self.domainstate[1], h[s.velocity])
    IN StageResult(self, Alloc(h, velocity), SmokeState(s.density, Len(h) + 1))

\* (a variant that skips the first boundary conditions and subtracts from the
\* caller's velocity object)
DivergenceFreeInPlaceOnInput(self, w, h, s, ok) ==
    LET sp == SolvePressure(self, h[s.velocity], ok)
        gradp == StaggeredGradient(sp.pressure, self.rank)
        h2 == [h EXCEPT ![s.velocity] = FieldSub(h[s.velocity], WithHardBoundaryConditions(self.domainstate[1], gradp))]
    IN [raised |-> sp.raised, self |-> sp.self, heap |-> IF sp.raised THEN h ELSE h2,
        out |-> IF sp.raised THEN SmokeState(0, 0) ELSE SmokeState(s.density, s.velocity),
        solve |-> <<sp>>]
\* Smoke.divergence_free.  `velocity -= ...` is taken at its strongest, as an
\* update in place of the object that with_hard_boundary_conditions returned.
DivergenceFree(self, w, h, s, ok) ==
    LET vref == Len(h) + 1
        h1 == Alloc(h, WithHardBoundaryConditions(self.domainstate[1], h[s.velocity]))
        sp == SolvePressure(self, h1[vref], ok)
        gradp == StaggeredGradient(sp.pressure, self.rank)
        h2 == [h1 EXCEPT ![vref] = FieldSub(h1[vref], WithHardBoundaryConditions(self.domainstate[1], gradp))]
    IN [raised |-> sp.raised, self |-> sp.self, heap |-> IF sp.raised THEN h1 ELSE h2,
        out |-> IF sp.raised THEN SmokeState(0, 0) ELSE SmokeState(s.density, vref),
        solve |-> <<sp>>]

\* (a variant that projects before the boundary conditions of friction)
StepPipelineProjectFirst == <<"advect", "inflow", "buoyancy", "divergence_free", "friction">>
\* Smoke.step: smokestate * advect * inflow * buoyancy * friction * divergence_free,
\* where state * operation is operation(state)
StepPipeline == <<"advect", "inflow", "buoyancy", "friction", "divergence_free">>

\* Smoke.serialize_to_dict
SerializeToDict(self) ==
    [type |-> "smoke", class |-> "Smoke", module |-> "phi.physics.smoke", rank |-> self.rank,
     domain |-> [rank |-> self.rank], gravity |-> self.gravity, buoyancy_factor |-> self.buoyancy_factor,
     conserve_density |-> self.conserve_density, solver |-> "SparseCG"]
\* Smoke.unserialize_from_dict(self): the method takes no argument besides self,
\* so a call that passes one is refused before the body runs
UnserializeFromDict(self, args) ==
    IF Len(args) # 0 THEN "TypeError" ELSE "NotImplementedError"

\* ------------------------------------------------------------- inputs
\* densities: empty, or smoke in one cell; velocities: component k uniform, c * k
InputDensities == {Tensor(<<Const(0)>>)} \cup {Tensor(<<[i \in Cells |-> IF i = j THEN 1 ELSE 0]>>) : j \in {1, NCells}}
InputVelocities(rank) == {Staggered([k \in 1..rank |-> Const(c * k)]) : c \in {-1, 0, 1}}
\* what a caller may hand to solve_pressure: a staggered velocity, centered
\* per-axis component data, or a divergence scalar field
SolveInputs(rank) ==
    {[what |-> "staggered", value |-> v] : v \in InputVelocities(rank)}
    \cup {[what |-> "components", value |-> Tensor(v.ch)] : v \in InputVelocities(rank)}
    \cup {[what |-> "divergence", value |-> d] : d \in InputDensities}
\* the diagnostics another engine of the same configuration may hold: none yet,
\* or those a solve_pressure call on a uniform velocity leaves
Diagnostics(self) ==
    {[last_pressure |-> <<>>, last_iter |-> <<>>]}
    \cup {[last_pressure |-> SolvePressure(self, v, TRUE).self.last_pressure,
           last_iter |-> SolvePressure(self, v, TRUE).self.last_iter] :
             v \in {Staggered([k \in 1..self.rank |-> Const(k)])}}

\* -------------------------------------------------------------- state
VARIABLES
    world,          \* the world's geometry
    listeners,      \* who subscribed to world.on_change
    notifications,  \* change notifications fired so far
    status,         \* "unbuilt", "ok" (constructed) or "failed" (the constructor raised)
    ctor,           \* the constructor's arguments
    smoke,          \* the engine's attributes
    call,           \* the latest call on the engine or a SmokeState
    pc,             \* "idle", "running", "returned" or "raised"
    error,          \* the exception of a call that raised
    pos,            \* the stage of StepPipeline that runs next
    heap,           \* the field objects of the running step
    cur,            \* the SmokeState handed to the next stage
    hist,           \* the stages called in this step
    twin,           \* a second engine, equal but for its diagnostics, run on the same input
    attempt,        \* the latest pressure-solve attempt
    args,           \* the arguments of the latest unserialize_from_dict call
    dis             \* the latest disassemble / reassemble

vars == <<world, listeners, notifications, status, ctor, smoke, call, pc, error,
          pos, heap, cur, hist, twin, attempt, args, dis>>

NoCtor == [rank |-> 0, gravity |-> ScalarGravity(0)]

Init ==
    /\ world \in Worlds
    /\ listeners = {}
    /\ notifications = 0
    /\ status = "unbuilt"
    /\ ctor = NoCtor
    /\ smoke = NoSmoke
    /\ call = "none"
    /\ pc = "idle"
    /\ error = ""
    /\ pos = 0
    /\ heap = <<>>
    /\ cur = SmokeState(0, 0)
    /\ hist = <<>>
    /\ twin = <<>>
    /\ attempt = <<>>
    /\ args = <<>>
    /\ dis = <<>>

\* a new call forgets what the calls before it left behind
NoStep == pos' = 0 /\ heap' = <<>> /\ cur' = SmokeState(0, 0) /\ hist' = <<>> /\ twin' = <<>>
NoAttempt == attempt' = <<>>
NoArgs == args' = <<>>
NoDis == dis' = <<>>

\* Smoke.__init__(domain, world, dt, gravity, buoyancy_factor, conserve_density);
\* world.on_change(callback) adds the engine to the world's listeners
Construct(rank, gravity, dt, factor, conserve) ==
    /\ status = "unbuilt"
    /\ ctor' = [rank |-> rank, gravity |-> gravity]
    /\ call' = "construct"
    /\ LET g == GravityInit(gravity, rank)
       IN IF g.ok
          THEN /\ status' = "ok"
               /\ smoke' = [rank |-> rank, gravity |-> g.gravity, dt |-> dt,
                            buoyancy_factor |-> factor, conserve_density |-> conserve,
                            domainstate |-> <<UpdateDomain(world, notifications)>>,
                            last_pressure |-> <<>>, last_iter |-> <<>>]
               /\ listeners' = listeners \cup {"smoke"}
               /\ pc' = "returned"
               /\ error' = ""
          ELSE /\ status' = "failed"
               /\ pc' = "raised"
               /\ error' = g.err
               /\ UNCHANGED <<smoke, listeners>>
    /\ NoStep /\ NoAttempt /\ NoArgs /\ NoDis
    /\ UNCHANGED <<world, notifications>>

\* the world's geometry changes and the world notifies its listeners; the
\* engine's callback runs _update_domain.  Calls are synchronous: the world
\* does not change while a step runs.  Init draws the geometry the constructor
\* meets, so the changes of interest are those after the constructor ran.
WorldChange(w) ==
    /\ status # "unbuilt"
    /\ pc # "running"
    /\ notifications < MaxChanges
    /\ world' = w
    /\ notifications' = notifications + 1
    /\ IF "smoke" \in listeners
       THEN smoke' = [smoke EXCEPT !.domainstate = <<UpdateDomain(w, notifications + 1)>>]
       ELSE UNCHANGED smoke
    /\ call' = "world" /\ pc' = "idle" /\ error' = ""
    /\ NoStep /\ NoAttempt /\ NoArgs /\ NoDis
    /\ UNCHANGED <<listeners, status, ctor>>

\* what a pressure-solve attempt did, and the diagnostics before it
Attempt(what, sp, before) ==
    [what |-> what, ndiv |-> sp.ndiv, raised |-> sp.raised, pressure |-> sp.pressure,
     iter |-> sp.iter,
     before |-> [last_pressure |-> before.last_pressure, last_iter |-> before.last_iter]]

\* Smoke.step(smokestate) is called: the caller's two fields are objects 1 and 2.
\* The twin engine differs from the engine in its diagnostics alone.
StepBegin(d, v, diag) ==
    /\ status = "ok"
    /\ pc # "running"
    /\ call' = "step"
    /\ pc' = "running"
    /\ error' = ""
    /\ pos' = 1
    /\ heap' = <<d, v>>
    /\ cur' = SmokeState(1, 2)
    /\ hist' = <<>>
    /\ twin' = <<[smoke |-> [smoke EXCEPT !.last_pressure = diag.last_pressure, !.last_iter = diag.last_iter],
                  heap |-> <<d, v>>, cur |-> SmokeState(1, 2), raised |-> FALSE, diag0 |-> diag]>>
    /\ NoAttempt /\ NoArgs /\ NoDis
    /\ UNCHANGED <<world, listeners, notifications, status, ctor, smoke>>

\* the stage named `name` is applied to cur; r is what the stage gives on the
\* engine, r2 what it gives on the twin
RunStage(name, r, r2) ==
    /\ status = "ok" /\ call = "step" /\ pc = "running"
    /\ pos \in 1..Len(StepPipeline)
    /\ StepPipeline[pos] = name
    /\ hist' = Append(hist, [op |-> name, in |-> cur, out |-> r.out, returned |-> ~r.raised,
                             pre |-> SmokeState(heap[cur.density], heap[cur.velocity])])
    /\ heap' = r.heap
    /\ smoke' = r.self
    /\ twin' = <<[smoke |-> r2.self, heap |-> r2.heap, raised |-> r2.raised, diag0 |-> twin[1].diag0,
                  cur |-> IF r2.raised THEN twin[1].cur ELSE r2.out]>>
    /\ attempt' = IF r.solve = NoSolve THEN attempt ELSE <<Attempt("staggered", r.solve[1], smoke)>>
    /\ IF r.raised
       THEN pc' = "raised" /\ error' = "SolverError" /\ cur' = cur /\ pos' = pos
       ELSE pc' = pc /\ error' = error /\ cur' = r.out /\ pos' = pos + 1
    /\ UNCHANGED <<world, listeners, notifications, status, ctor, call, args, dis>>

AdvectStage ==
    RunStage("advect", Advect(smoke, world, heap, cur), Advect(twin[1].smoke, world, twin[1].heap, twin[1].cur))
InflowStage ==
    RunStage("inflow", Inflow(smoke, world, heap, cur), Inflow(twin[1].smoke, world, twin[1].heap, twin[1].cur))
BuoyancyStage ==
    RunStage("buoyancy", Buoyancy(smoke, world, heap, cur), Buoyancy(twin[1].smoke, world, twin[1].heap, twin[1].cur))
FrictionStage ==
    RunStage("friction", Friction(smoke, world, heap, cur), Friction(twin[1].smoke, world, twin[1].heap, twin[1].cur))
DivergenceFreeStage ==
    \E ok \in BOOLEAN :
        RunStage("divergence_free", DivergenceFree(smoke, world, heap, cur, ok),
                 DivergenceFree(twin[1].smoke, world, twin[1].heap, twin[1].cur, ok))

\* step returns the SmokeState the last stage returned
StepReturn ==
    /\ status = "ok" /\ call = "step" /\ pc = "running"
    /\ pos = Len(StepPipeline) + 1
    /\ pc' = "returned"
    /\ UNCHANGED <<world, listeners, notifications, status, ctor, smoke, call, error,
                   pos, heap, cur, hist, twin, attempt, args, dis>>

\* Smoke.solve_pressure(input) called by itself
CallSolvePressure(x, ok) ==
    /\ status = "ok"
    /\ pc # "running"
    /\ call' = "solve_pressure"
    /\ LET sp == SolvePressure(smoke, x.value, ok)
       IN /\ smoke' = sp.self
          /\ attempt' = <<Attempt(x.what, sp, smoke)>>
          /\ pc' = IF sp.raised THEN "raised" ELSE "returned"
          /\ error' = IF sp.raised THEN "SolverError" ELSE ""
    /\ NoStep /\ NoArgs /\ NoDis
    /\ UNCHANGED <<world, listeners, notifications, status, ctor>>

\* smoke.unserialize_from_dict(*a): a is <<>> or holds one dictionary
CallUnserialize(a) ==
    /\ status = "ok"
    /\ pc # "running"
    /\ call' = "unserialize_from_dict"
    /\ args' = a
    /\ pc' = "raised"
    /\ error' = UnserializeFromDict(smoke, a)
    /\ NoStep /\ NoAttempt /\ NoDis
    /\ UNCHANGED <<world, listeners, notifications, status, ctor, smoke>>

\* the lists a caller may hand to the reassemble function of disassemble(s):
\* the list it got, that list reversed, or other tensors, all different
Reverse(f) == [k \in 1..Len(f) |-> f[Len(f) + 1 - k]]
ReassembleArgs(f) ==
    {f, Reverse(f)} \cup {[k \in 1..Len(f) |-> Tensor(<<Const(c + k)>>)] : c \in {3, 7}}

\* fields, reassemble = s.disassemble(); reassemble(t)
CallDisassemble(s) ==
    /\ pc # "running"
    /\ call' = "disassemble"
    /\ pc' = "returned"
    /\ error' = ""
    /\ \E t \in ReassembleArgs(SmokeStateDisassemble(s)) :
          dis' = <<[state |-> s, fields |-> SmokeStateDisassemble(s), tensors |-> t,
                    rebuilt |-> SmokeStateReassemble(t)]>>
    /\ NoStep /\ NoAttempt /\ NoArgs
    /\ UNCHANGED <<world, listeners, notifications, status, ctor, smoke>>

\* ------------------------------------------------------ specifications
\* The engine in use: built with the default scalar gravity, then stepped,
\* asked for pressures and for deserialisation while the world changes.
DefaultGravity == ScalarGravity(-1)
Next ==
    \/ \E r \in Ranks, dt \in DtValues, f \in BuoyancyFactors, c \in BOOLEAN :
          Construct(r, DefaultGravity, dt, f, c)
    \/ \E w \in Worlds : WorldChange(w)
    \/ /\ status = "ok"
       /\ \E d \in InputDensities, v \in InputVelocities(smoke.rank), diag \in Diagnostics(smoke) :
             StepBegin(d, v, diag)
    \/ AdvectStage
    \/ InflowStage
    \/ BuoyancyStage
    \/ FrictionStage
    \/ DivergenceFreeStage
    \/ StepReturn
    \/ \E x \in SolveInputs(smoke.rank), ok \in BOOLEAN : CallSolvePressure(x, ok)
    \/ \E a \in {<<>>, <<SerializeToDict(smoke)>>} : CallUnserialize(a)

Spec == Init /\ [][Next]_vars

\* Construction with every kind of gravity argument, in a world that changes
NextConfig ==
    \/ \E r \in Ranks, g \in GravityArgs, dt \in DtValues, f \in BuoyancyFactors, c \in BOOLEAN :
          Construct(r, g, dt, f, c)
    \/ \E w \in Worlds : WorldChange(w)
SpecConfig == Init /\ [][NextConfig]_vars

\* SmokeState by itself: any state is disassembled and a list reassembled
SmokeStates == {SmokeState(d, v) : d \in InputDensities, v \in UNION {InputVelocities(r) : r \in Ranks}}
NextState == \E s \in SmokeStates : CallDisassemble(s)
SpecState == Init /\ [][NextState]_vars

\* ------------------------------------------------------------ properties
Deref(h, s) == SmokeState(h[s.density], h[s.velocity])
StageOrder == <<"advect", "inflow", "buoyancy", "friction", "divergence_free">>
MasksOf(w) == [i \in Cells |-> 1 - w.obstacle[i]]

\* C1: in every step the stages called so far are advect, inflow, buoyancy,
\* friction, divergence_free in that order, each once, each given the SmokeState
\* the one before it returned (the first the caller's); a step that returned
\* ran all five and returns what divergence_free returned; a pressure solve
\* happens only in the fifth stage, after friction returned.
C1_StagesInOrder ==
    call = "step" =>
        /\ Len(hist) <= Len(StageOrder)
        /\ \A k \in 1..Len(hist) :
              /\ hist[k].op = StageOrder[k]
              /\ hist[k].in = IF k = 1 THEN SmokeState(1, 2) ELSE hist[k - 1].out
              /\ k < Len(hist) => hist[k].returned
        /\ pc = "running" => pos = Len(hist) + 1
        /\ pc = "returned" => Len(hist) = 5 /\ hist[5].returned /\ cur = hist[5].out
        /\ attempt # <<>> => Len(hist) = 5 /\ hist[4].op = "friction" /\ hist[4].returned
C1_Witness ==
    call = "step" /\ pc = "returned" /\ Len(hist) = 5 /\ attempt # <<>>

\* C2: once the engine is built its DomainState always holds active = accessible
\* = 1 - obstacle mask of the world as it is now, and the DomainState object is
\* replaced by exactly those transitions in which the world fires a change
\* notification: every step, stage and other call leaves it the same object.
C2_DomainStateFollowsWorld ==
    /\ [](status = "ok" =>
            /\ Len(smoke.domainstate) = 1
            /\ smoke.domainstate[1].active = MasksOf(world)
            /\ smoke.domainstate[1].accessible = MasksOf(world))
    /\ [][(status = "ok" /\ status' = "ok") =>
            ((smoke'.domainstate # smoke.domainstate) <=> (notifications' # notifications))]_vars
C2_Witness ==
    /\ status = "ok" /\ call = "step" /\ pc = "returned"
    /\ smoke.domainstate[1].id = MaxChanges
    /\ smoke.domainstate[1].active # Const(1)

\* C3: a tuple / list gravity whose length differs from the rank makes the
\* constructor fail; one whose length equals the rank gives an engine that
\* stores that vector.
C3_TupleGravityChecked ==
    (status # "unbuilt" /\ ctor.gravity.seq) =>
        IF Len(ctor.gravity.val) = ctor.rank
        THEN status = "ok" /\ smoke.gravity = ctor.gravity.val
        ELSE status = "failed"

\* C4 as claimed: after every pressure-solve attempt, returned or raised, the
\* diagnostics are set and are those of that attempt, not the earlier ones.
C4_DiagnosticsAfterEveryAttempt ==
    attempt # <<>> =>
        /\ smoke.last_pressure # <<>>
        /\ smoke.last_iter # <<>>
        /\ ~attempt[1].raised =>
              smoke.last_pressure = <<attempt[1].pressure>> /\ smoke.last_iter = <<attempt[1].iter>>
        /\ attempt[1].raised =>
              [last_pressure |-> smoke.last_pressure, last_iter |-> smoke.last_iter] # attempt[1].before
\* C4 amended: after a solve that returned, last_pressure and last_iter are the
\* pressure and iteration count of that solve; after a solve that raised they
\* are what they were before the attempt (unset if no solve returned yet), the
\* call has raised to its caller and, in a step, no further stage ran.
C4_DiagnosticsAfterReturnedSolve ==
    attempt # <<>> =>
        IF attempt[1].raised
        THEN /\ [last_pressure |-> smoke.last_pressure, last_iter |-> smoke.last_iter] = attempt[1].before
             /\ pc = "raised" /\ error = "SolverError"
             /\ call = "step" => ~hist[Len(hist)].returned /\ pos = Len(hist)
        ELSE /\ smoke.last_pressure = <<attempt[1].pressure>>
             /\ smoke.last_iter = <<attempt[1].iter>>
             /\ pc # "raised"
C4_Witness ==
    /\ attempt # <<>> /\ attempt[1].raised
    /\ smoke.last_pressure # <<>>
    /\ call = "step"

\* C5: a call of unserialize_from_dict with a dictionary raises
\* NotImplementedError and no other error.
C5_UnserializeNotImplemented ==
    (call = "unserialize_from_dict" /\ Len(args) = 1) =>
        pc = "raised" /\ error = "NotImplementedError"

\* C6: disassemble(s) gives the list density, velocity component 0, 1, ...;
\* reassemble of a list puts its first element in density and the others, in
\* order, in the velocity components, so reassemble of the list disassemble
\* gave is field-for-field the state s.
C6_DisassembleRoundTrip ==
    dis # <<>> =>
        LET s == dis[1].state
            f == dis[1].fields
            t == dis[1].tensors
            r == dis[1].rebuilt
        IN /\ Len(f) = 1 + Len(s.velocity.ch)
           /\ f[1] = s.density
           /\ \A k \in 1..Len(s.velocity.ch) : f[k + 1] = Tensor(<<s.velocity.ch[k]>>)
           /\ r.density = t[1]
           /\ IsStaggered(r.velocity)
           /\ Len(r.velocity.ch) = Len(t) - 1
           /\ \A k \in 1..(Len(t) - 1) : r.velocity.ch[k] = t[k + 1].ch[1]
           /\ t = f => r = s
C6_Witness ==
    /\ dis # <<>>
    /\ dis[1].tensors = dis[1].fields
    /\ Len(dis[1].state.velocity.ch) = MaxRank
    /\ dis[1].state.velocity.ch[1] # dis[1].state.velocity.ch[MaxRank]
    /\ dis[1].rebuilt = dis[1].state

\* C7: a step of the engine and a step of an engine that differs from it in
\* last_pressure / last_iter alone, on the same SmokeState, agree after every
\* stage: the same fields, and a raise in one is a raise in the other.
C7_StepIndependentOfDiagnostics ==
    (call = "step" /\ twin # <<>>) =>
        /\ twin[1].raised = (pc = "raised")
        /\ Deref(twin[1].heap, twin[1].cur) = Deref(heap, cur)
C7_Witness ==
    /\ call = "step" /\ pc = "returned" /\ twin # <<>> /\ attempt # <<>>
    /\ attempt[1].before.last_pressure # <<>>
    /\ twin[1].diag0.last_pressure # attempt[1].before.last_pressure
    /\ Deref(heap, cur).velocity # Deref(heap, SmokeState(1, 2)).velocity

\* C8: a scalar gravity g on a domain of rank r gives the gravity vector of
\* length r with g first and zeros after it.
C8_ScalarGravityBroadcast ==
    (status # "unbuilt" /\ ~ctor.gravity.seq) =>
        /\ status = "ok"
        /\ Len(smoke.gravity) = ctor.rank
        /\ smoke.gravity[1] = ctor.gravity.val[1]
        /\ \A k \in 2..ctor.rank : smoke.gravity[k] = 0
C8_Witness ==
    status = "ok" /\ ~ctor.gravity.seq /\ ctor.rank = MaxRank /\ smoke.gravity[1] # 0

\* C9: the objects a stage was given read as they did before it, now and for
\* the rest of the step; inflow returns the velocity it was given; buoyancy,
\* friction and divergence_free return the density they were given.
C9_StagesFrame ==
    call = "step" =>
        \A k \in 1..Len(hist) :
            /\ Deref(heap, hist[k].in) = hist[k].pre
            /\ (hist[k].returned /\ hist[k].op = "inflow") =>
                  heap[hist[k].out.velocity] = hist[k].pre.velocity
            /\ (hist[k].returned /\ hist[k].op \in {"buoyancy", "friction", "divergence_free"}) =>
                  heap[hist[k].out.density] = hist[k].pre.density
C9_Witness ==
    /\ call = "step" /\ pc = "returned" /\ Len(hist) = 5
    /\ heap[hist[5].out.velocity] # hist[5].pre.velocity
    /\ heap[hist[2].out.density] # hist[2].pre.density
    /\ heap[hist[3].out.velocity] # hist[3].pre.velocity

\* C10: solve_pressure applies the divergence once to a staggered velocity and
\* to component data, never to a divergence field, whatever the rank.
C10_DivergenceOnce ==
    attempt # <<>> =>
        attempt[1].ndiv = IF attempt[1].what \in {"staggered", "components"} THEN 1 ELSE 0

====
